---- MODULE Spec2Model ----
(***************************************************************************)
(* A model of the narrated-video pipeline: parser.parse_script,            *)
(* image_query_refiner.batch_refine_scenes / refine_scene,                 *)
(* fetch_serp._save_image / fetch_images, tts_processor.TTSProcessor,      *)
(* video_generator.VideoGenerator.create_video and pipeline.build_video.   *)
(*                                                                         *)
(* Text is a sequence of one-character strings, so that trimming, case     *)
(* folding and prefix matching are computed and not assumed.               *)
(***************************************************************************)
EXTENDS Integers, Sequences, FiniteSets, TLC

VARIABLES
    script,     \* parser: the script text, as a sequence of lines
    segs,       \* parser: the list parse_script returned
    ppc,        \* parser: "idle" | "start" | "done"
    rSegs,      \* refiner: len(segments)
    rN,         \* refiner: images_per_segment / n
    rReply,     \* refiner: what _call_o3 returns
    rOut,       \* refiner: the outcome of batch_refine_scenes
    sOut,       \* refiner: the outcome of refine_scene
    rpc,        \* refiner: "idle" | "start" | "batch_done" | "scene_done"
    svTries,    \* _save_image: the argument tries
    svAttempt,  \* _save_image: the loop variable attempt (the next one to run)
    svFn,       \* _save_image: the local fn (NoFile while it is None)
    svFiles,    \* the files in OUT_DIR
    svLog,      \* _save_image: the requests.get and time.sleep calls made, in order
    svRet,      \* _save_image: "running" | "path" | "None"
    svImage,    \* _save_image: the content behind the path returned
    svpc,       \* _save_image: "idle" | "loop" | "done"
    pc,         \* build_video: "idle" | "start" | "tts" | "fetch" | "render" | "done"
    ips,        \* build_video: the argument images_per_segment
    segments,   \* build_video: the list parse_script returned (a list of dicts)
    ttsIdx,     \* build_video: the segments the TTS loop has been through
    ttsLog,     \* per segment, what its scene_to_mp3 call did
    voiced,     \* build_video: the list voiced, as positions in segments
    queries,    \* build_video: all_queries_dict
    fIdx,       \* build_video: idx of the image loop (a position in voiced)
    qIdx,       \* build_video: the derived queries of voiced[fIdx] already handled
    segImgs,    \* build_video: seg_imgs
    fetchLog,   \* the _fetch_one_image calls made, in order
    clips,      \* create_video: the segments a clip was built for, in order
    outFile,    \* the file at the output location: "absent" | "partial" | "complete"
    aborted,    \* where an exception left build_video: "no" | "refine" | "fetch" | "render"
    result,     \* what build_video returned: "running" | "None" | "path" | "raised"
    tRaw,       \* text_to_mp3: the argument text
    tClean,     \* text_to_mp3: text after _clean
    tChunks,    \* _chunk_and_combine: chunks, each the lengths of its sentences
    tCalls,     \* the speech requests made, in order: the length of the input, the outcome
    tParts,     \* _chunk_and_combine: parts, as positions in chunks
    tFiles,     \* the chunk files in the audio directory, as positions in chunks
    tOut,       \* the chunks whose audio is in the artifact, in order (<<0>>: the whole text)
    tRet,       \* text_to_mp3: "running" | "path" | "None"
    tpc,        \* text_to_mp3: "idle" | "start" | "single" | "chunks" | "done"
    fTarget,    \* fetch_images: the argument target
    fPageNo,    \* _serpapi_hits: the search-page requests made so far
    fData,      \* _serpapi_hits: images_results of the page requested last
    fHit,       \* _serpapi_hits: the hits of that page already yielded
    fSaved,     \* fetch_images: saved, as the URLs the paths come from
    fDownloads, \* the URLs _save_image has been called with
    fRet,       \* fetch_images: "running" | "returned" | "raised"
    fpc,        \* fetch_images: "idle" | "loop" | "done"
    cDur,       \* create_video: audio.duration of the segment
    cImages,    \* create_video: seg["images"], TRUE for a path that exists
    cSlices,    \* create_video: the visuals built for the segment, in order
    cTotal,     \* create_video: the duration of the segment's clip
    cpc         \* create_video: "idle" | "start" | "done"

parseVars == <<script, segs, ppc>>
refineVars == <<rSegs, rN, rReply, rOut, sOut, rpc>>

saveVars == <<svTries, svAttempt, svFn, svFiles, svLog, svRet, svImage, svpc>>

pipeVars == <<pc, ips, segments, ttsIdx, ttsLog, voiced, queries, fIdx, qIdx,
              segImgs, fetchLog, clips, outFile, aborted, result>>

ttsVars == <<tRaw, tClean, tChunks, tCalls, tParts, tFiles, tOut, tRet, tpc>>

fetchVars == <<fTarget, fPageNo, fData, fHit, fSaved, fDownloads, fRet, fpc>>

sliceVars == <<cDur, cImages, cSlices, cTotal, cpc>>

vars == <<script, segs, ppc, rSegs, rN, rReply, rOut, sOut, rpc,
          svTries, svAttempt, svFn, svFiles, svLog, svRet, svImage, svpc,
          pc, ips, segments, ttsIdx, ttsLog, voiced, queries, fIdx, qIdx,
          segImgs, fetchLog, clips, outFile, aborted, result,
          tRaw, tClean, tChunks, tCalls, tParts, tFiles, tOut, tRet, tpc,
          fTarget, fPageNo, fData, fHit, fSaved, fDownloads, fRet, fpc,
          cDur, cImages, cSlices, cTotal, cpc>>

(***************************************************************************)
(* Bounds                                                                  *)
(***************************************************************************)
MaxLines == 4
MaxSegs == 2
MaxN == 2
MaxItems == 2
MaxTries == 3
MaxTTSLines == 3
MaxHits == 2
MaxPages == 2
MaxTarget == 2
MaxImgs == 3
FloatBits == 4

(***************************************************************************)
(* Characters and strings                                                  *)
(***************************************************************************)
LowerMap ==
    ("A" :> "a") @@ ("B" :> "b") @@ ("C" :> "c") @@ ("D" :> "d") @@
    ("E" :> "e") @@ ("F" :> "f") @@ ("G" :> "g") @@ ("H" :> "h") @@
    ("I" :> "i") @@ ("J" :> "j") @@ ("K" :> "k") @@ ("L" :> "l") @@
    ("M" :> "m") @@ ("N" :> "n") @@ ("O" :> "o") @@ ("P" :> "p") @@
    ("Q" :> "q") @@ ("R" :> "r") @@ ("S" :> "s") @@ ("T" :> "t") @@
    ("U" :> "u") @@ ("V" :> "v") @@ ("W" :> "w") @@ ("X" :> "x") @@
    ("Y" :> "y") @@ ("Z" :> "z")

\* str.lower()
Lower(s) ==
    [i \in 1..Len(s) |-> IF s[i] \in DOMAIN LowerMap THEN LowerMap[s[i]] ELSE s[i]]

\* the characters \s matches and str.strip() removes
IsSpace(c) == c \in {" ", "\n"}

RECURSIVE LStrip(_)
LStrip(s) ==
    IF s # <<>> /\ IsSpace(Head(s)) THEN LStrip(Tail(s)) ELSE s

RECURSIVE RStrip(_)
RStrip(s) ==
    IF s # <<>> /\ IsSpace(s[Len(s)]) THEN RStrip(SubSeq(s, 1, Len(s) - 1)) ELSE s

\* str.strip()
Strip(s) == RStrip(LStrip(s))

\* str.startswith(prefix)
StartsWith(s, prefix) ==
    /\ Len(s) >= Len(prefix)
    /\ SubSeq(s, 1, Len(prefix)) = prefix

(***************************************************************************)
(* parser.py                                                               *)
(***************************************************************************)
\* STRUCTURAL_HEADINGS
STRUCTURAL_HEADINGS == {
    <<"i","n","t","r","o","d","u","c","t","i","o","n">>,
    <<"c","o","n","c","l","u","s","i","o","n">>,
    <<"s","o","u","r","c","e","s">>,
    <<"r","e","f","e","r","e","n","c","e","s">>,
    <<"b","i","b","l","i","o","g","r","a","p","h","y">>,
    <<"f","u","r","t","h","e","r"," ","r","e","a","d","i","n","g">>,
    <<"c","r","e","d","i","t","s">> }

\* the literal of the "Skip Sources section entirely" test
SOURCES == <<"s","o","u","r","c","e","s">>

\* the value of "heading" for the leading block (Python's None)
None == <<"<None>">>

\* The lines scripts are made of.
LnIntro == <<"I","n","t","r","o",".">>
LnBlank == <<" ">>
LnBody == <<"W","o","n",".">>
LnNews == <<"#","#","#"," ","N","e","w","s">>
LnSources == <<"#","#","#"," ","S","o","u","r","c","e","s">>
LnSourcesLong == <<" ","#","#","#","S","O","U","R","C","E","S",":"," ","w","e","b"," ">>
LnReferences == <<"#","#","#"," ","R","e","f","e","r","e","n","c","e","s">>
LnCredits == <<"#","#","#"," ","c","r","e","d","i","t","s">>
LnFurther == <<"#","#","#"," ","F","u","r","t","h","e","r"," ","R","e","a","d","i","n","g">>
LnBiblio == <<"#","#","#"," ","B","i","b","l","i","o","g","r","a","p","h","y">>
LnIntroduction == <<"#","#","#"," ","I","n","t","r","o","d","u","c","t","i","o","n">>

Lines == { LnIntro, LnBlank, LnBody, LnNews, LnSources, LnSourcesLong,
           LnReferences, LnCredits, LnFurther, LnBiblio, LnIntroduction }

\* the sequences over S of length at most n
SeqsUpTo(S, n) == UNION { [1..k -> S] : k \in 0..n }

Scripts == SeqsUpTo(Lines, MaxLines)

\* HEAD_RE = ^\s*#{3}\s*(.+)$ on one line: the captured group, or None when the
\* line is no heading line.  Every heading marker of Lines has text after it on
\* its own line, so no match runs over a line end.
HeadGroup(line) ==
    LET l == LStrip(line)
    IN  IF Len(l) >= 3 /\ SubSeq(l, 1, 3) = <<"#", "#", "#">>
        THEN LET rest == LStrip(SubSeq(l, 4, Len(l)))
             IN  IF rest # <<>> THEN rest ELSE None
        ELSE None

IsHeadLine(line) == HeadGroup(line) # None

\* HEAD_RE.split(script): <<text, heading, text, heading, text, ...>>, the
\* texts being the lines between two heading lines, joined by line ends.
RECURSIVE SplitFrom(_, _, _)
SplitFrom(lines, i, cur) ==
    IF i > Len(lines) THEN <<cur>>
    ELSE IF IsHeadLine(lines[i])
         THEN <<cur, HeadGroup(lines[i])>> \o SplitFrom(lines, i + 1, <<"\n">>)
         ELSE SplitFrom(lines, i + 1, cur \o lines[i] \o <<"\n">>)

HeadSplit(lines) == SplitFrom(lines, 1, <<>>)

\* IsStructural that finds no heading structural
IsStructural_Never(head_clean) == FALSE

\* any(head_clean.lower().startswith(structural) for structural in ...)
IsStructural(head_clean) ==
    \E structural \in STRUCTURAL_HEADINGS : StartsWith(Lower(head_clean), structural)

\* head_clean.lower().startswith("sources")
IsSourcesHead(head_clean) == StartsWith(Lower(head_clean), SOURCES)

\* PairSegs with the test "if not body_clean: continue" left out
PairSegs_NoBodySkip(head, body) ==
    LET head_clean == Strip(head)
        body_clean == Strip(body)
    IN  IF IsSourcesHead(head_clean) THEN <<>>
        ELSE LET content == IF IsStructural(head_clean)
                            THEN body_clean
                            ELSE head_clean \o <<".", " ">> \o body_clean
             IN  << [type |-> "text", heading |-> head_clean, content |-> content] >>

\* PairSegs with the structural test made before the sources test
PairSegs_StructuralFirst(head, body) ==
    LET head_clean == Strip(head)
        body_clean == Strip(body)
    IN  IF body_clean = <<>> THEN <<>>
        ELSE IF IsStructural(head_clean)
        THEN << [type |-> "text", heading |-> head_clean, content |-> body_clean] >>
        ELSE IF IsSourcesHead(head_clean) THEN <<>>
        ELSE << [type |-> "text", heading |-> head_clean,
                 content |-> head_clean \o <<".", " ">> \o body_clean] >>

\* PairSegs with the "Skip Sources section entirely" test left out
PairSegs_NoSourcesSkip(head, body) ==
    LET head_clean == Strip(head)
        body_clean == Strip(body)
    IN  IF body_clean = <<>> THEN <<>>
        ELSE LET content == IF IsStructural(head_clean)
                            THEN body_clean
                            ELSE head_clean \o <<".", " ">> \o body_clean
             IN  << [type |-> "text", heading |-> head_clean, content |-> content] >>

\* the body of the loop "for head, body in zip(it, it)": the segments one
\* (heading, body) pair adds
PairSegs(head, body) ==
    LET head_clean == Strip(head)
        body_clean == Strip(body)
    IN  IF IsSourcesHead(head_clean) THEN <<>>
        ELSE IF body_clean = <<>> THEN <<>>
        ELSE LET content == IF IsStructural(head_clean)
                            THEN body_clean
                            ELSE head_clean \o <<".", " ">> \o body_clean
             IN  << [type |-> "text", heading |-> head_clean, content |-> content] >>

RECURSIVE PairsFrom(_, _)
PairsFrom(parts, k) ==
    IF k + 1 > Len(parts) THEN <<>>
    ELSE PairSegs(parts[k], parts[k + 1]) \o PairsFrom(parts, k + 2)

\* parse_script with the leading block appended after the headings' segments
parse_script_LeadLast(s) ==
    LET parts == HeadSplit(s)
        first == Strip(parts[1])
        lead  == IF first # <<>>
                 THEN << [type |-> "text", heading |-> None, content |-> first] >>
                 ELSE <<>>
    IN  PairsFrom(parts, 2) \o lead

\* parse_script(script)
parse_script(s) ==
    LET parts == HeadSplit(s)
        first == Strip(parts[1])
        lead  == IF first # <<>>
                 THEN << [type |-> "text", heading |-> None, content |-> first] >>
                 ELSE <<>>
    IN  lead \o PairsFrom(parts, 2)

(***************************************************************************)
(* image_query_refiner.py                                                  *)
(*                                                                         *)
(* A query string is a record naming the template that made it: a query    *)
(* of the LLM's reply ("llm", its identity in a), or one of the f-strings  *)
(* of the fallbacks with the numbers formatted into it (a, b).  The topic  *)
(* keyword is the same in every fallback of one call and is left out.      *)
(***************************************************************************)
Query(src, a, b) == [src |-> src, a |-> a, b |-> b]

\* an element of a JSON array: a string (a query) or something else
StrItem(id) == [isStr |-> TRUE, q |-> Query("llm", id, 0)]
NonStrItem == [isStr |-> FALSE, q |-> Query("nonstr", 0, 0)]
Items == {StrItem(1), StrItem(2), NonStrItem}

\* a JSON value under one key of the reply: kind says what json.loads made of
\* it; items is what iterating it yields (the elements of a list, the
\* characters of a string, the keys of an object)
Value(kind, items) == [kind |-> kind, items |-> items]
Absent == Value("absent", <<>>)
Values ==
    { Absent, Value("null", <<>>), Value("num", <<>>),
      Value("str", <<StrItem(1), StrItem(2)>>),
      Value("dict", <<StrItem(1)>>) }
    \cup { Value("list", l) : l \in SeqsUpTo(Items, MaxItems) }

\* what _call_o3 returns: None ("none": no client, a failed call, no text in
\* the response), text that is no JSON ("garbage"), or JSON text: a scalar, an
\* array (items) or an object (vals: what is under the keys "0", "1", ...)
Reply(kind, items, vals) == [kind |-> kind, items |-> items, vals |-> vals]

Replies(n) ==
    { Reply(k, <<>>, <<>>) : k \in {"none", "garbage", "scalar"} }
    \cup { Reply("list", l, <<>>) : l \in SeqsUpTo(Items, MaxItems) }
    \cup { Reply("dict", <<>>, v) : v \in [0..(n - 1) -> Values] }

\* [x] * n
Repeat(x, n) == [j \in 1..n |-> x]

\* seq[:n]
Take(seq, n) == SubSeq(seq, 1, IF Len(seq) < n THEN Len(seq) ELSE n)

\* [q for q in qlist if isinstance(q, str)]
RECURSIVE StrQueries(_)
StrQueries(items) ==
    IF items = <<>> THEN <<>>
    ELSE (IF Head(items).isStr THEN <<Head(items).q>> ELSE <<>>)
         \o StrQueries(Tail(items))

\* "for q in qlist" raises TypeError on a value that is not iterable
Iterable(v) == v.kind \in {"absent", "list", "str", "dict"}

\* the body of the loop of batch_refine_scenes for index i
BatchQueries(v, i, N) ==
    Take(StrQueries(v.items) \o Repeat(Query("segment_extra", i, 0), N), N)

\* the try block of batch_refine_scenes: the exception it ends with ("none"
\* when it returns) and the dictionary it returns
BatchTry(n, N, reply) ==
    IF reply.kind = "garbage"
    THEN [exc |-> "JSONDecodeError", out |-> <<>>]
    ELSE IF n = 0
    THEN [exc |-> "none", out |-> <<>>]
    ELSE IF reply.kind # "dict"
    THEN [exc |-> "AttributeError", out |-> <<>>]       \* data.get
    ELSE IF \E i \in 0..(n - 1) : ~Iterable(reply.vals[i])
    THEN [exc |-> "TypeError", out |-> <<>>]
    ELSE [exc |-> "none",
          out |-> [i \in 0..(n - 1) |-> BatchQueries(reply.vals[i], i, N)]]

\* an except clause that names the JSON decoding error alone
ExceptCatches_DecodeOnly(exc) == exc = "JSONDecodeError"

\* "except Exception"
ExceptCatches(exc) == TRUE

\* batch_refine_scenes(segments, images_per_segment, topic), n = len(segments)
batch_refine_scenes(n, N, reply) ==
    IF reply.kind = "none"
    THEN [raised |-> FALSE,
          out |-> [i \in 0..(n - 1) |->
                     [j \in 1..N |-> Query("segment_fallback", i, j)]]]
    ELSE LET t == BatchTry(n, N, reply)
         IN  IF t.exc = "none" THEN [raised |-> FALSE, out |-> t.out]
             ELSE IF ExceptCatches(t.exc)
             THEN [raised |-> FALSE,
                   out |-> [i \in 0..(n - 1) |->
                              [j \in 1..N |-> Query("error", 0, j)]]]
             ELSE [raised |-> TRUE, out |-> <<>>]

\* the try block of refine_scene.  JSON_RE takes the array or object out of a
\* noisy reply; the reply kinds are what json.loads makes of what is left.
SceneTry(N, reply) ==
    IF reply.kind = "garbage"
    THEN [exc |-> "JSONDecodeError", out |-> <<>>]
    ELSE IF reply.kind # "list" \/ \E k \in DOMAIN reply.items : ~reply.items[k].isStr
    THEN [exc |-> "ValueError", out |-> <<>>]           \* "bad structure"
    ELSE [exc |-> "none",
          out |-> Take(StrQueries(reply.items) \o Repeat(Query("extra", 0, 0), N), N)]

\* refine_scene(text, n, topic)
refine_scene(N, reply) ==
    IF reply.kind = "none"
    THEN [raised |-> FALSE, out |-> [j \in 1..N |-> Query("placeholder", 0, j)]]
    ELSE LET t == SceneTry(N, reply)
         IN  IF t.exc = "none" THEN [raised |-> FALSE, out |-> t.out]
             ELSE IF ExceptCatches(t.exc)
             THEN [raised |-> FALSE, out |-> [j \in 1..N |-> Query("error", 0, j)]]
             ELSE [raised |-> TRUE, out |-> <<>>]

NoOutcome == [raised |-> FALSE, out |-> <<>>]

(***************************************************************************)
(* fetch_serp.py: _save_image                                              *)
(***************************************************************************)
MIN_WIDTH == 1000

\* What a download can bring: content with its MD5 name, whether PIL can
\* decode it, and its pixel width.
Content(id, valid, width) == [id |-> id, valid |-> valid, width |-> width]
NoContent == Content(0, FALSE, 0)
Contents ==
    { Content(1, TRUE, 999), Content(2, TRUE, 1000), Content(3, TRUE, 1600),
      Content(4, FALSE, 0) }

\* a file of OUT_DIR: <md5>.jpg or <md5>.json
File(id, ext) == [id |-> id, ext |-> ext]
NoFile == File(0, "none")

\* "if im.width < MIN_WIDTH: raise ValueError": the widths that pass
WidthOK_NoCheck(w) == TRUE

WidthOK(w) == ~(w < MIN_WIDTH)

\* What one pass of the try block does, given what the outside world does:
\*   got     the content requests.get delivered, NoContent when it raised
\*   wrote   "ok" | "partial" | "nothing": what fn.write_bytes left behind
\*   sidecar "ok" | "partial" | "nothing": what open(..., "w") and json.dump
\*           left behind ("partial": the file was created and the dump raised)
\* The result: whether the pass returned, the value of fn, and the files.
TryBlock(files, fn, got, wrote, sidecar) ==
    IF got = NoContent
    THEN [ok |-> FALSE, fn |-> fn, files |-> files]
    ELSE LET f == File(got.id, "jpg")
             j == File(got.id, "json")
         IN  IF wrote # "ok"
             THEN [ok |-> FALSE, fn |-> f,
                   files |-> IF wrote = "partial" THEN files \cup {f} ELSE files]
             ELSE IF ~got.valid \/ ~WidthOK(got.width)
             THEN [ok |-> FALSE, fn |-> f, files |-> files \cup {f}]
             ELSE IF sidecar # "ok"
             THEN [ok |-> FALSE, fn |-> f,
                   files |-> IF sidecar = "partial"
                             THEN files \cup {f, j} ELSE files \cup {f}]
             ELSE [ok |-> TRUE, fn |-> f, files |-> files \cup {f, j}]

\* "except Exception: if fn and fn.exists(): fn.unlink(missing_ok=True)"
ExceptCleanup(files, fn) ==
    IF fn # NoFile /\ fn \in files THEN files \ {fn} ELSE files

\* "if attempt == tries - 1: print(...) else: time.sleep(1)"
SleepsAfter(attempt, tries) == attempt # tries - 1

\* one iteration of "for attempt in range(tries)"
SaveAttempt ==
    /\ svpc = "loop"
    /\ svAttempt < svTries
    /\ \E got \in Contents \cup {NoContent},
          wrote \in {"ok", "partial", "nothing"},
          sidecar \in {"ok", "partial", "nothing"} :
          LET t == TryBlock(svFiles, svFn, got, wrote, sidecar)
          IN  /\ svFn' = t.fn
              /\ IF t.ok
                 THEN /\ svFiles' = t.files
                      /\ svLog' = Append(svLog, "get")
                      /\ svRet' = "path"
                      /\ svImage' = got
                      /\ svpc' = "done"
                      /\ UNCHANGED svAttempt
                 ELSE /\ svFiles' = ExceptCleanup(t.files, t.fn)
                      /\ svLog' = IF SleepsAfter(svAttempt, svTries)
                                  THEN svLog \o <<"get", "sleep">>
                                  ELSE Append(svLog, "get")
                      /\ svAttempt' = svAttempt + 1
                      /\ UNCHANGED <<svRet, svImage, svpc>>
    /\ UNCHANGED <<svTries, parseVars, refineVars, pipeVars>>
    /\ UNCHANGED <<ttsVars, fetchVars, sliceVars>>

\* the loop is over: "return None"
SaveGiveUp ==
    /\ svpc = "loop"
    /\ svAttempt >= svTries
    /\ svRet' = "None"
    /\ svpc' = "done"
    /\ UNCHANGED <<svTries, svAttempt, svFn, svFiles, svLog, svImage,
                   parseVars, refineVars, pipeVars>>
    /\ UNCHANGED <<ttsVars, fetchVars, sliceVars>>

SaveNext == SaveAttempt \/ SaveGiveUp

(***************************************************************************)
(* tts_processor.py                                                        *)
(*                                                                         *)
(* For the synthesizer a text is the lengths of its sentences: the pieces  *)
(* text.split(". ") yields.  Only these lengths decide between the single  *)
(* call and the chunks.                                                    *)
(***************************************************************************)
TTS_SINGLE_MAX == 4096
CHUNK_LIMIT == 4000

RECURSIVE SumSeq(_)
SumSeq(ns) == IF ns = <<>> THEN 0 ELSE Head(ns) + SumSeq(Tail(ns))

\* len(text) of the cleaned text: the sentences joined by ". "
TextLen(sents) == SumSeq(sents) + 2 * (Len(sents) - 1)

\* len(cur) of a chunk that holds these sentences, each followed by ". "
ChunkLen(chunk) == SumSeq(chunk) + 2 * Len(chunk)

\* the loop of _chunk_and_combine that fills chunks
RECURSIVE ChunksFrom(_, _, _, _)
ChunksFrom(sents, k, cur, chunks) ==
    IF k > Len(sents)
    THEN IF cur # <<>> THEN Append(chunks, cur) ELSE chunks
    ELSE IF ChunkLen(cur) + sents[k] + 2 < CHUNK_LIMIT
         THEN ChunksFrom(sents, k + 1, Append(cur, sents[k]), chunks)
         ELSE ChunksFrom(sents, k + 1, <<sents[k]>>, Append(chunks, cur))

Chunks(sents) == ChunksFrom(sents, 1, <<>>, <<>>)

\* the narration texts of the segments: short, exactly at the limit of the
\* single call, and two texts over it
TextProfiles == { <<100>>, <<4096>>, <<2000, 2095>>, <<1500, 1500, 1500>> }

\* text_to_mp3: calls are the outcomes of the speech requests it makes, in
\* order (TRUE: the request streamed its audio to the file).  The result:
\* which path was taken, the requests made and whether a path was returned.
\*   single call: the path on success, None on an exception
\*   chunks: a failed chunk is logged and left out; _combine returns None only
\*   when no chunk succeeded
text_to_mp3(sents, calls) ==
    IF TextLen(sents) > TTS_SINGLE_MAX
    THEN [path |-> "chunks", calls |-> calls,
          mp3 |-> \E k \in DOMAIN calls : calls[k]]
    ELSE [path |-> "single", calls |-> calls, mp3 |-> calls[1]]

\* the speech requests text_to_mp3 makes for a text
NumCalls(sents) ==
    IF TextLen(sents) > TTS_SINGLE_MAX THEN Len(Chunks(sents)) ELSE 1

(***************************************************************************)
(* tts_processor.py: _clean and the text handed to the speech request      *)
(*                                                                         *)
(* A run of letters too long to write out is one element of the text, a    *)
(* string such as "x1500", that counts for as many characters as RunLen    *)
(* says; it is no space, no mark and no part of a URL scheme.              *)
(***************************************************************************)
RunLen == ("x1500" :> 1500) @@ ("x4097" :> 4097)

\* len(text)
RECURSIVE PyLen(_)
PyLen(s) ==
    IF s = <<>> THEN 0
    ELSE (IF Head(s) \in DOMAIN RunLen THEN RunLen[Head(s)] ELSE 1) + PyLen(Tail(s))

\* str.replace(pat, ""): the occurrences of pat, left to right, removed
RECURSIVE RemoveAll(_, _)
RemoveAll(s, pat) ==
    IF s = <<>> THEN <<>>
    ELSE IF StartsWith(s, pat) THEN RemoveAll(SubSeq(s, Len(pat) + 1, Len(s)), pat)
    ELSE <<Head(s)>> \o RemoveAll(Tail(s), pat)

\* the length of the longest prefix of s without whitespace (\S*)
RECURSIVE NonSpaceRun(_)
NonSpaceRun(s) ==
    IF s = <<>> \/ IsSpace(Head(s)) THEN 0 ELSE 1 + NonSpaceRun(Tail(s))

\* the first position of character c in s, 0 when there is none
RECURSIVE IndexOf(_, _)
IndexOf(s, c) ==
    IF s = <<>> THEN 0
    ELSE IF Head(s) = c THEN 1
    ELSE LET r == IndexOf(Tail(s), c) IN IF r = 0 THEN 0 ELSE r + 1

RECURSIVE Contains(_, _)
Contains(s, pat) ==
    /\ Len(s) >= Len(pat)
    /\ StartsWith(s, pat) \/ Contains(Tail(s), pat)

\* the length of the match of  https?://\S+  at the start of s, 0 for none
UrlMatch(s) ==
    LET p == IF StartsWith(s, <<"h","t","t","p","s",":","/","/">>) THEN 8
             ELSE IF StartsWith(s, <<"h","t","t","p",":","/","/">>) THEN 7
             ELSE 0
        n == NonSpaceRun(SubSeq(s, p + 1, Len(s)))
    IN  IF p > 0 /\ n > 0 THEN p + n ELSE 0

\* the length of the match of  \[[^\]]+]\([^)]*\)  at the start of s, 0 for none
LinkMatch(s) ==
    IF s = <<>> \/ Head(s) # "[" THEN 0
    ELSE LET j == IndexOf(s, "]")
         IN  IF j < 3 \/ j + 1 > Len(s) THEN 0
             ELSE IF s[j + 1] # "(" THEN 0
             ELSE LET k == IndexOf(SubSeq(s, j + 2, Len(s)), ")")
                  IN  IF k = 0 THEN 0 ELSE j + 1 + k

\* the top-level domains of the fourth substitution
TLDS == { <<".","c","o","m">>, <<".","o","r","g">>, <<".","n","e","t">>,
          <<".","g","o","v">> }

\* the length of the match of  \([^)]*\.(com|org|net|gov)[^)]*\)  with re.I
\* at the start of s, 0 for none
DomainMatch(s) ==
    IF s = <<>> \/ Head(s) # "(" THEN 0
    ELSE LET k == IndexOf(s, ")")
         IN  IF k = 0 THEN 0
             ELSE IF \E tld \in TLDS : Contains(Lower(SubSeq(s, 2, k - 1)), tld)
                  THEN k ELSE 0

\* re.sub(pattern, '', s) for each of the three patterns: the matches, left to
\* right, removed
RECURSIVE SubUrls(_)
SubUrls(s) ==
    IF s = <<>> THEN <<>>
    ELSE IF UrlMatch(s) > 0 THEN SubUrls(SubSeq(s, UrlMatch(s) + 1, Len(s)))
    ELSE <<Head(s)>> \o SubUrls(Tail(s))

RECURSIVE SubLinks(_)
SubLinks(s) ==
    IF s = <<>> THEN <<>>
    ELSE IF LinkMatch(s) > 0 THEN SubLinks(SubSeq(s, LinkMatch(s) + 1, Len(s)))
    ELSE <<Head(s)>> \o SubLinks(Tail(s))

RECURSIVE SubDomains(_)
SubDomains(s) ==
    IF s = <<>> THEN <<>>
    ELSE IF DomainMatch(s) > 0 THEN SubDomains(SubSeq(s, DomainMatch(s) + 1, Len(s)))
    ELSE <<Head(s)>> \o SubDomains(Tail(s))

\* [l.strip() for l in txt.splitlines() if l.strip()]
RECURSIVE StrippedLines(_, _)
StrippedLines(s, cur) ==
    IF s = <<>> THEN (IF Strip(cur) # <<>> THEN <<Strip(cur)>> ELSE <<>>)
    ELSE IF Head(s) = "\n"
         THEN (IF Strip(cur) # <<>> THEN <<Strip(cur)>> ELSE <<>>)
              \o StrippedLines(Tail(s), <<>>)
         ELSE StrippedLines(Tail(s), Append(cur, Head(s)))

\* ". ".join(lines)
RECURSIVE JoinLines(_)
JoinLines(lines) ==
    IF lines = <<>> THEN <<>>
    ELSE IF Len(lines) = 1 THEN lines[1]
    ELSE lines[1] \o <<".", " ">> \o JoinLines(Tail(lines))

\* TTSProcessor._clean(txt)
_clean(txt) ==
    LET t1 == RemoveAll(RemoveAll(RemoveAll(txt, <<"#","#","#">>), <<"*","*">>), <<"#">>)
        t2 == SubUrls(t1)
        t3 == SubLinks(t2)
        t4 == SubDomains(t3)
    IN  JoinLines(StrippedLines(t4, <<>>))

\* the lengths of  text.replace("\n", " ").split(". ")
RECURSIVE SentLensFrom(_, _)
SentLensFrom(s, cur) ==
    IF s = <<>> THEN <<cur>>
    ELSE IF StartsWith(s, <<".", " ">>) \/ StartsWith(s, <<".", "\n">>)
         THEN <<cur>> \o SentLensFrom(SubSeq(s, 3, Len(s)), 0)
         ELSE SentLensFrom(Tail(s), cur + PyLen(<<Head(s)>>))

SentLens(text) == SentLensFrom(text, 0)

\* The lines the narrated scripts are made of, besides LnBody, LnNews and
\* LnReferences: a raw URL, a markdown link, a parenthetical domain mention,
\* a bold marker with nothing in it, and two long runs of letters.
LnUrl == <<"h","t","t","p","s",":","/","/","x",".","c","o">>
LnLink == <<"[","a","]","(","b",")">>
LnParen == <<"(","x",".","C","o","m",")">>
LnStars == <<"*","*">>
LnRun1500 == <<"x1500">>
LnRun4097 == <<"x4097">>

TTSLines == { LnBody, LnNews, LnReferences, LnUrl, LnLink, LnParen, LnStars,
              LnRun1500, LnRun4097 }

\* scene["content"] of the segments parse_script makes of these scripts
TTSContents ==
    UNION { { parse_script(sc)[i].content : i \in DOMAIN parse_script(sc) } :
            sc \in SeqsUpTo(TTSLines, MaxTTSLines) }

\* what a speech request can do: stream the audio to the file, raise before
\* the file is created, or raise with a part of the file written
SynthOutcomes == {"ok", "fail", "partial"}

(***************************************************************************)
(* text_to_mp3 on its own, request by request                              *)
(***************************************************************************)
TTSIdle ==
    /\ tRaw = <<>> /\ tClean = <<>> /\ tChunks = <<>> /\ tCalls = <<>>
    /\ tParts = <<>> /\ tFiles = {} /\ tOut = <<>> /\ tRet = "running"
    /\ tpc = "idle"

\* text = self._clean(text), then the test "if len(text) > 4096" and, past it,
\* the loop of _chunk_and_combine that fills chunks
TTSClean ==
    /\ tpc = "start"
    /\ tClean' = _clean(tRaw)
    /\ IF PyLen(tClean') > TTS_SINGLE_MAX
       THEN /\ tChunks' = Chunks(SentLens(tClean'))
            /\ tpc' = "chunks"
       ELSE /\ tChunks' = tChunks
            /\ tpc' = "single"
    /\ UNCHANGED <<tRaw, tCalls, tParts, tFiles, tOut, tRet>>
    /\ UNCHANGED <<parseVars, refineVars, saveVars, pipeVars, fetchVars, sliceVars>>

\* the single request of text_to_mp3, in its try block
TTSSingle ==
    /\ tpc = "single"
    /\ \E o \in SynthOutcomes :
          /\ tCalls' = Append(tCalls, [len |-> PyLen(tClean), outcome |-> o])
          /\ IF o = "ok"
             THEN tRet' = "path" /\ tOut' = <<0>>
             ELSE tRet' = "None" /\ tOut' = tOut
    /\ tpc' = "done"
    /\ UNCHANGED <<tRaw, tClean, tChunks, tParts, tFiles>>
    /\ UNCHANGED <<parseVars, refineVars, saveVars, pipeVars, fetchVars, sliceVars>>

\* one iteration of "for i, chunk in enumerate(chunks)": the request for the
\* chunk, its file appended to parts when the request succeeded
TTSChunk ==
    /\ tpc = "chunks"
    /\ Len(tCalls) < Len(tChunks)
    /\ LET i == Len(tCalls) + 1
       IN  \E o \in SynthOutcomes :
              /\ tCalls' = Append(tCalls, [len |-> ChunkLen(tChunks[i]), outcome |-> o])
              /\ tParts' = IF o = "ok" THEN Append(tParts, i) ELSE tParts
              /\ tFiles' = IF o \in {"ok", "partial"} THEN tFiles \cup {i} ELSE tFiles
    /\ UNCHANGED <<tRaw, tClean, tChunks, tOut, tRet, tpc>>
    /\ UNCHANGED <<parseVars, refineVars, saveVars, pipeVars, fetchVars, sliceVars>>

\* return self._combine(parts, out_path): None without parts; else the audio
\* of parts, in order, exported and the files of parts removed
TTSCombine ==
    /\ tpc = "chunks"
    /\ Len(tCalls) = Len(tChunks)
    /\ IF tParts = <<>>
       THEN /\ tRet' = "None"
            /\ UNCHANGED <<tOut, tFiles>>
       ELSE /\ tRet' = "path"
            /\ tOut' = tParts
            /\ tFiles' = tFiles \ { tParts[k] : k \in DOMAIN tParts }
    /\ tpc' = "done"
    /\ UNCHANGED <<tRaw, tClean, tChunks, tCalls, tParts>>
    /\ UNCHANGED <<parseVars, refineVars, saveVars, pipeVars, fetchVars, sliceVars>>

TTSNext == TTSClean \/ TTSSingle \/ TTSChunk \/ TTSCombine

(***************************************************************************)
(* fetch_serp.py: _good_host, _serpapi_hits, fetch_images                  *)
(*                                                                         *)
(* A URL is the host it is written with; urlparse(url).hostname is the     *)
(* host in lower case.  A hit always has the key "original".               *)
(***************************************************************************)
BLOCKLIST == {
    <<"l","o","o","k","a","s","i","d","e",".","i","n","s","t","a","g","r","a","m",".","c","o","m">>,
    <<"l","o","o","k","a","s","i","d","e",".","f","b","s","b","x",".","c","o","m">>,
    <<"i","m","g",".","u","e","f","a",".","c","o","m">> }

Url(host) == [host |-> host]

\* urlparse(url).hostname
Hostname(url) == Lower(url.host)

\* _good_host with the host compared as written
_good_host_AsWritten(url) == url.host \notin BLOCKLIST

\* _good_host(url)
_good_host(url) == Hostname(url) \notin BLOCKLIST

\* the hits the search answers with
Hits == { Url(<<"i","m","g",".","u","e","f","a",".","c","o","m">>),
          Url(<<"I","M","G",".","U","E","F","A",".","C","O","M">>),
          Url(<<"u","e","f","a",".","c","o","m">>),
          Url(<<"x",".","c","o">>) }

\* images_results of one page
SearchPages == SeqsUpTo(Hits, MaxHits)

FetchIdle ==
    /\ fTarget = 0 /\ fPageNo = 0 /\ fData = <<>> /\ fHit = 0 /\ fSaved = <<>>
    /\ fDownloads = {} /\ fRet = "running" /\ fpc = "idle"

\* _serpapi_hits resumed with the hits of its page all yielded (or none
\* requested yet): the request for the next page.  It is outside any try
\* block, so a failed request leaves fetch_images as an exception.  A page
\* without results ends the generator and with it the loop of fetch_images.
\* The search has no more than MaxPages pages with results.
FetchSearch ==
    /\ fpc = "loop"
    /\ fHit = Len(fData)
    /\ fPageNo' = fPageNo + 1
    /\ \/ /\ fRet' = "raised"
          /\ fpc' = "done"
          /\ UNCHANGED <<fData, fHit>>
       \/ \E data \in (IF fPageNo < MaxPages THEN SearchPages ELSE {<<>>}) :
             /\ fData' = data
             /\ fHit' = 0
             /\ IF data = <<>>
                THEN fRet' = "returned" /\ fpc' = "done"
                ELSE UNCHANGED <<fRet, fpc>>
    /\ UNCHANGED <<fTarget, fSaved, fDownloads>>
    /\ UNCHANGED <<parseVars, refineVars, saveVars, pipeVars, ttsVars, sliceVars>>

\* the generator yields the next hit of its page and the loop body of
\* fetch_images runs with it: break when saved is full, else the host test
\* and, past it, _save_image, whose path (if any) is appended to saved
FetchHit ==
    /\ fpc = "loop"
    /\ fHit < Len(fData)
    /\ fHit' = fHit + 1
    /\ LET url == fData[fHit + 1]
       IN  IF Len(fSaved) >= fTarget
           THEN /\ fRet' = "returned"
                /\ fpc' = "done"
                /\ UNCHANGED <<fSaved, fDownloads>>
           ELSE IF _good_host(url)
           THEN /\ fDownloads' = fDownloads \cup {url}
                /\ \E path \in BOOLEAN :
                      fSaved' = IF path THEN Append(fSaved, url) ELSE fSaved
                /\ UNCHANGED <<fRet, fpc>>
           ELSE UNCHANGED <<fSaved, fDownloads, fRet, fpc>>
    /\ UNCHANGED <<fTarget, fPageNo, fData>>
    /\ UNCHANGED <<parseVars, refineVars, saveVars, pipeVars, ttsVars, sliceVars>>

FetchNext == FetchSearch \/ FetchHit

(***************************************************************************)
(* video_generator.py: the visuals create_video builds for one segment     *)
(*                                                                         *)
(* A duration is a binary floating-point number <<m, e>>, worth m * 2^e,   *)
(* with a significand of FloatBits bits (Python's float has 53); every     *)
(* operation rounds its exact result to the nearest such number, ties to   *)
(* the even significand.                                                   *)
(***************************************************************************)
RECURSIVE Pow2(_)
Pow2(n) == IF n = 0 THEN 1 ELSE 2 * Pow2(n - 1)

\* the floating-point number nearest to (n / d) * 2^e
RECURSIVE RoundQ(_, _, _)
RoundQ(n, d, e) ==
    IF n = 0 THEN <<0, 0>>
    ELSE IF n >= d * Pow2(FloatBits) THEN RoundQ(n, 2 * d, e + 1)
    ELSE IF n < d * Pow2(FloatBits - 1) THEN RoundQ(2 * n, d, e - 1)
    ELSE LET q == n \div d
             r == n % d
             m == IF 2 * r > d \/ (2 * r = d /\ q % 2 = 1) THEN q + 1 ELSE q
         IN  IF m = Pow2(FloatBits) THEN <<Pow2(FloatBits - 1), e + 1>> ELSE <<m, e>>

\* x / k, k an int
FDiv(x, k) == RoundQ(x[1], k, x[2])

\* j * x, j an int
FMul(j, x) == RoundQ(j * x[1], 1, x[2])

\* x + y
FAdd(x, y) ==
    LET e == IF x[2] < y[2] THEN x[2] ELSE y[2]
    IN  RoundQ(x[1] * Pow2(x[2] - e) + y[1] * Pow2(y[2] - e), 1, e)

\* audio.duration: zero, and the numbers from 1 to just under 16
Durations ==
    { <<0, 0>> } \cup
    { <<m, e>> : m \in Pow2(FloatBits - 1)..(Pow2(FloatBits) - 1),
                 e \in (1 - FloatBits)..0 }

\* seg["images"]: for each path, whether the file exists
ImageLists == SeqsUpTo(BOOLEAN, MaxImgs)

\* img_paths = [p for p in (seg.get("images") or []) if p and os.path.exists(p)]
img_paths(images) == SelectSeq(images, LAMBDA p : p)

\* the slice of every image given the whole duration instead of its share
SliceDur_Whole(dur, k) == dur

\* per = dur / len(img_paths)
SliceDur(dur, k) == FDiv(dur, k)

\* np.cumsum([0] + [c.duration for c in clips]) of concatenate_videoclips:
\* the start of each clip and, last, the duration of the whole
RECURSIVE StartTimes(_, _)
StartTimes(durs, t) ==
    IF durs = <<>> THEN <<t>>
    ELSE <<t>> \o StartTimes(Tail(durs), FAdd(t, Head(durs)))

\* the subclips of a segment with k images: _img_clip(path, per) with the
\* audio audio.subclip(j * per, (j + 1) * per), put at its start time by
\* concatenate_videoclips(subclips, method="compose")
Subclips(dur, k) ==
    LET per == SliceDur(dur, k)
        tt  == StartTimes([j \in 1..k |-> per], <<0, 0>>)
    IN  [j \in 1..k |->
            [kind |-> "image", start |-> tt[j], duration |-> per,
             end |-> FAdd(tt[j], per),
             audio_start |-> FMul(j - 1, per), audio_end |-> FMul(j, per)]]

\* ColorClip(...).set_duration(dur).set_audio(audio)
Placeholder(dur) ==
    << [kind |-> "placeholder", start |-> <<0, 0>>, duration |-> dur, end |-> dur,
        audio_start |-> <<0, 0>>, audio_end |-> dur] >>

SliceIdle ==
    /\ cDur = <<0, 0>> /\ cImages = <<>> /\ cSlices = <<>> /\ cTotal = <<0, 0>>
    /\ cpc = "idle"

\* the body of "for seg_idx, seg in enumerate(segments)" for a segment whose
\* audio file exists
SegmentClip ==
    /\ cpc = "start"
    /\ LET k == Len(img_paths(cImages))
       IN  IF k = 0
           THEN /\ cSlices' = Placeholder(cDur)
                /\ cTotal' = cDur
           ELSE /\ cSlices' = Subclips(cDur, k)
                /\ cTotal' = StartTimes([j \in 1..k |-> cSlices'[j].duration],
                                        <<0, 0>>)[k + 1]
    /\ cpc' = "done"
    /\ UNCHANGED <<cDur, cImages>>
    /\ UNCHANGED <<parseVars, refineVars, saveVars, pipeVars, ttsVars, fetchVars>>

SliceNext == SegmentClip

(***************************************************************************)
(* pipeline.py: build_video                                                *)
(***************************************************************************)
\* IMAGES_PER_SEGMENT of main.py, the largest images_per_segment used
IMAGES_PER_SEGMENT == 2

\* the scripts generate_script delivers
PipeScripts ==
    { <<>>,
      <<LnBlank>>,
      <<LnSources, LnBody>>,
      <<LnIntro>>,
      <<LnIntro, LnNews, LnBody>>,
      <<LnNews, LnBody, LnSources, LnBody>>,
      <<LnIntroduction, LnBody, LnReferences, LnBody>> }

\* a segment dict: keys are the keys it has
SegDict(seg) ==
    [type |-> seg.type, heading |-> seg.heading, content |-> seg.content,
     audio_path |-> 0, images |-> <<>>, keys |-> {"type", "heading", "content"}]

\* seg["audio_path"] = mp3, with the content of the segment cleared as well
WithAudio_ClearsContent(seg, idx) ==
    [seg EXCEPT !.audio_path = idx, !.content = <<>>, !.keys = @ \cup {"audio_path"}]

\* seg["audio_path"] = mp3, the file scene_<idx>.mp3
WithAudio(seg, idx) ==
    [seg EXCEPT !.audio_path = idx, !.keys = @ \cup {"audio_path"}]

\* seg_data["images"] = seg_imgs
WithImages(seg, imgs) ==
    [seg EXCEPT !.images = imgs, !.keys = @ \cup {"images"}]

\* voiced.append(seg) under "if mp3:", with a segment put first instead
VoicedAfter_Prepend(v, pos, mp3) == IF mp3 THEN <<pos>> \o v ELSE v

\* voiced.append(seg) under "if mp3:"
VoicedAfter(v, pos, mp3) == IF mp3 THEN Append(v, pos) ELSE v

\* the replies of the LLM the pipeline is run with
PipeValues == { Absent, Value("null", <<>>),
                Value("list", <<StrItem(1), StrItem(2)>>) }

PipeReplies(n) ==
    { Reply(k, <<>>, <<>>) : k \in {"none", "garbage"} }
    \cup { Reply("dict", <<>>, v) : v \in [0..(n - 1) -> PipeValues] }

\* all_queries_dict.get with the segment's index in the list parse_script
\* returned instead of its index in voiced
QueriesFor_ParsedIndex(q, idx, n) ==
    IF voiced[idx + 1] - 1 \in DOMAIN q
    THEN q[voiced[idx + 1] - 1]
    ELSE Repeat(Query("topic", 0, 0), n)

\* all_queries_dict.get(idx, [refined_topic] * images_per_segment)
QueriesFor(q, idx, n) ==
    IF idx \in DOMAIN q THEN q[idx] ELSE Repeat(Query("topic", 0, 0), n)

\* f"{refined_topic} visual {q_idx+1}", with the topic alone instead
DerivedFallback_Topic(q_idx) == Query("topic", 0, 0)

\* f"{refined_topic} visual {q_idx+1}"
DerivedFallback(q_idx) == Query("visual", q_idx + 1, 0)

\* f"{refined_topic} photo {len(seg_imgs) + 1}"
TopUpQuery(imgs) == Query("photo", Len(imgs) + 1, 0)

\* an entry of fetchLog: the position in voiced, the role of the call in the
\* loop, the derived query it belongs to, the query string, and what
\* _fetch_one_image did: "ok" (a path), "none" (None) or "raise"
Fetch(seg, role, slot, q, res) ==
    [seg |-> seg, role |-> role, slot |-> slot, q |-> q, res |-> res]

\* What _fetch_one_image can do.  fetch_images returns the list of the paths
\* saved, and lets the exceptions of _serpapi_hits through: the search request
\* and its .json() are outside any try block.
FetchOutcomes == {"ok", "none", "raise"}

\* The segments the segments step starts from: parse_script(script_text).
PipeInit ==
    /\ pc = "start"
    /\ ips \in 1..IMAGES_PER_SEGMENT
    /\ segments \in { [i \in DOMAIN parse_script(sc) |-> SegDict(parse_script(sc)[i])] :
                        sc \in PipeScripts }
    /\ ttsIdx = 0
    /\ ttsLog = <<>>
    /\ voiced = <<>>
    /\ queries = <<>>
    /\ fIdx = 0
    /\ qIdx = 0
    /\ segImgs = <<>>
    /\ fetchLog = <<>>
    /\ clips = <<>>
    /\ outFile = "absent"
    /\ aborted = "no"
    /\ result = "running"

PipeIdle ==
    /\ pc = "idle" /\ ips = 0 /\ segments = <<>> /\ ttsIdx = 0 /\ ttsLog = <<>>
    /\ voiced = <<>> /\ queries = <<>> /\ fIdx = 0 /\ qIdx = 0 /\ segImgs = <<>>
    /\ fetchLog = <<>> /\ clips = <<>> /\ outFile = "absent" /\ aborted = "no"
    /\ result = "running"

\* step 2: "if not segments: return None"
CheckSegments ==
    /\ pc = "start"
    /\ IF segments = <<>>
       THEN pc' = "done" /\ result' = "None"
       ELSE pc' = "tts" /\ UNCHANGED result
    /\ UNCHANGED <<ips, segments, ttsIdx, ttsLog, voiced, queries, fIdx, qIdx,
                   segImgs, fetchLog, clips, outFile, aborted>>
    /\ UNCHANGED <<parseVars, refineVars, saveVars, ttsVars, fetchVars, sliceVars>>

\* step 3: one iteration of "for idx, seg in enumerate(segments)"
TTSSegment ==
    /\ pc = "tts"
    /\ ttsIdx < Len(segments)
    /\ \E sents \in TextProfiles :
       \E calls \in [1..NumCalls(sents) -> BOOLEAN] :
          LET r == text_to_mp3(sents, calls)
              pos == ttsIdx + 1
          IN  /\ ttsLog' = Append(ttsLog, r)
              /\ voiced' = VoicedAfter(voiced, pos, r.mp3)
              /\ segments' = IF r.mp3
                             THEN [segments EXCEPT ![pos] = WithAudio(@, ttsIdx)]
                             ELSE segments
    /\ ttsIdx' = ttsIdx + 1
    /\ UNCHANGED <<pc, ips, queries, fIdx, qIdx, segImgs, fetchLog, clips,
                   outFile, aborted, result>>
    /\ UNCHANGED <<parseVars, refineVars, saveVars, ttsVars, fetchVars, sliceVars>>

\* after the TTS loop: "if not voiced: return None", then step 4, the call of
\* batch_refine_scenes(voiced, images_per_segment, topic=refined_topic)
AfterTTS ==
    /\ pc = "tts"
    /\ ttsIdx = Len(segments)
    /\ IF voiced = <<>>
       THEN /\ pc' = "done"
            /\ result' = "None"
            /\ UNCHANGED <<queries, aborted>>
       ELSE \E reply \in PipeReplies(Len(voiced)) :
               LET r == batch_refine_scenes(Len(voiced), ips, reply)
               IN  IF r.raised
                   THEN /\ pc' = "done"
                        /\ result' = "raised"
                        /\ aborted' = "refine"
                        /\ UNCHANGED queries
                   ELSE /\ pc' = "fetch"
                        /\ queries' = r.out
                        /\ UNCHANGED <<result, aborted>>
    /\ UNCHANGED <<ips, segments, ttsIdx, ttsLog, voiced, fIdx, qIdx, segImgs,
                   fetchLog, clips, outFile>>
    /\ UNCHANGED <<parseVars, refineVars, saveVars, ttsVars, fetchVars, sliceVars>>

\* seg_data["images"] = seg_imgs, and on to the next idx or to step 6
FinishSegment(imgs) ==
    /\ segments' = [segments EXCEPT ![voiced[fIdx + 1]] = WithImages(@, imgs)]
    /\ fIdx' = fIdx + 1
    /\ qIdx' = 0
    /\ segImgs' = <<>>
    /\ pc' = IF fIdx + 1 = Len(voiced) THEN "render" ELSE "fetch"

\* an exception of _fetch_one_image leaves build_video
FetchRaises ==
    /\ pc' = "done"
    /\ result' = "raised"
    /\ aborted' = "fetch"
    /\ UNCHANGED <<segments, fIdx, qIdx, segImgs>>

\* step 5: one iteration of "for q_idx, q_str in enumerate(queries_for_segment)"
FetchDerived ==
    /\ pc = "fetch"
    /\ fIdx < Len(voiced)
    /\ qIdx < Len(QueriesFor(queries, fIdx, ips))
    /\ LET q_str == QueriesFor(queries, fIdx, ips)[qIdx + 1]
           fb == DerivedFallback(qIdx)
       IN  \E first \in FetchOutcomes, second \in FetchOutcomes :
              LET e1 == Fetch(fIdx, "derived", qIdx, q_str, first)
                  e2 == Fetch(fIdx, "fallback", qIdx, fb, second)
              IN  \/ /\ first = "ok" /\ second = "ok"
                     /\ fetchLog' = Append(fetchLog, e1)
                     /\ segImgs' = Append(segImgs, q_str)
                     /\ qIdx' = qIdx + 1
                     /\ UNCHANGED <<segments, fIdx, pc, result, aborted>>
                  \/ /\ first = "raise" /\ second = "ok"
                     /\ fetchLog' = Append(fetchLog, e1)
                     /\ FetchRaises
                  \/ /\ first = "none" /\ second = "ok"
                     /\ fetchLog' = fetchLog \o <<e1, e2>>
                     /\ segImgs' = Append(segImgs, fb)
                     /\ qIdx' = qIdx + 1
                     /\ UNCHANGED <<segments, fIdx, pc, result, aborted>>
                  \/ /\ first = "none" /\ second = "none"
                     /\ fetchLog' = fetchLog \o <<e1, e2>>
                     /\ qIdx' = qIdx + 1
                     /\ UNCHANGED <<segments, fIdx, segImgs, pc, result, aborted>>
                  \/ /\ first = "none" /\ second = "raise"
                     /\ fetchLog' = fetchLog \o <<e1, e2>>
                     /\ FetchRaises
    /\ UNCHANGED <<ips, ttsIdx, ttsLog, voiced, queries, clips, outFile>>
    /\ UNCHANGED <<parseVars, refineVars, saveVars, ttsVars, fetchVars, sliceVars>>

\* a top-up loop without the break: a failed fetch is tried again
TopUp_NoBreak ==
    /\ pc = "fetch"
    /\ fIdx < Len(voiced)
    /\ qIdx = Len(QueriesFor(queries, fIdx, ips))
    /\ IF Len(segImgs) < ips
       THEN \E res \in FetchOutcomes :
               LET e == Fetch(fIdx, "topup", Len(segImgs), TopUpQuery(segImgs), res)
               IN  /\ fetchLog' = Append(fetchLog, e)
                   /\ \/ /\ res = "ok"
                         /\ segImgs' = Append(segImgs, TopUpQuery(segImgs))
                         /\ UNCHANGED <<segments, fIdx, qIdx, pc, result, aborted>>
                      \/ /\ res = "none"
                         /\ UNCHANGED <<segments, fIdx, qIdx, segImgs, pc,
                                        result, aborted>>
                      \/ /\ res = "raise"
                         /\ FetchRaises
       ELSE /\ FinishSegment(segImgs)
            /\ UNCHANGED <<fetchLog, result, aborted>>
    /\ UNCHANGED <<ips, ttsIdx, ttsLog, voiced, queries, clips, outFile>>
    /\ UNCHANGED <<parseVars, refineVars, saveVars, ttsVars, fetchVars, sliceVars>>

\* step 5: one iteration of "while len(seg_imgs) < images_per_segment", or,
\* with the loop over, the assignment of the images
TopUp ==
    /\ pc = "fetch"
    /\ fIdx < Len(voiced)
    /\ qIdx = Len(QueriesFor(queries, fIdx, ips))
    /\ IF Len(segImgs) < ips
       THEN \E res \in FetchOutcomes :
               LET e == Fetch(fIdx, "topup", Len(segImgs), TopUpQuery(segImgs), res)
               IN  /\ fetchLog' = Append(fetchLog, e)
                   /\ \/ /\ res = "ok"
                         /\ segImgs' = Append(segImgs, TopUpQuery(segImgs))
                         /\ UNCHANGED <<segments, fIdx, qIdx, pc, result, aborted>>
                      \/ /\ res = "none"                       \* break
                         /\ FinishSegment(segImgs)
                         /\ UNCHANGED <<result, aborted>>
                      \/ /\ res = "raise"
                         /\ FetchRaises
       ELSE /\ FinishSegment(segImgs)
            /\ UNCHANGED <<fetchLog, result, aborted>>
    /\ UNCHANGED <<ips, ttsIdx, ttsLog, voiced, queries, clips, outFile>>
    /\ UNCHANGED <<parseVars, refineVars, saveVars, ttsVars, fetchVars, sliceVars>>

(***************************************************************************)
(* video_generator.py: create_video                                        *)
(***************************************************************************)
\* the loop over segments: a clip for every segment whose audio_path is set
\* and exists (the file scene_<idx>.mp3 exists once text_to_mp3 returned it)
RECURSIVE ClipsOf(_, _)
ClipsOf(segList, v) ==
    IF v = <<>> THEN <<>>
    ELSE (IF "audio_path" \in segList[Head(v)].keys THEN <<Head(v)>> ELSE <<>>)
         \o ClipsOf(segList, Tail(v))

\* step 6: vg.create_video(voiced, output_filename) and "return mp4".  The
\* encoding (write_videofile) is outside any try block: when it raises, the
\* exception leaves build_video and what was written of the file stays.
Render ==
    /\ pc = "render"
    /\ clips' = ClipsOf(segments, voiced)
    /\ IF clips' = <<>>
       THEN /\ result' = "None"
            /\ UNCHANGED <<outFile, aborted>>
       ELSE \/ /\ result' = "path"
               /\ outFile' = "complete"
               /\ UNCHANGED aborted
            \/ /\ result' = "raised"
               /\ aborted' = "render"
               /\ outFile' \in {"absent", "partial"}
    /\ pc' = "done"
    /\ UNCHANGED <<ips, segments, ttsIdx, ttsLog, voiced, queries, fIdx, qIdx,
                   segImgs, fetchLog>>
    /\ UNCHANGED <<parseVars, refineVars, saveVars, ttsVars, fetchVars, sliceVars>>

PipeNext == CheckSegments \/ TTSSegment \/ AfterTTS \/ FetchDerived \/ TopUp \/ Render

(***************************************************************************)
(* Each component is run on its own; the others stay idle.                 *)
(***************************************************************************)
SaveIdle ==
    /\ svTries = 0 /\ svAttempt = 0 /\ svFn = NoFile /\ svFiles = {}
    /\ svLog = <<>> /\ svRet = "running" /\ svImage = NoContent /\ svpc = "idle"

ParseIdle == script = <<>> /\ segs = <<>> /\ ppc = "idle"

RefineIdle ==
    /\ rSegs = 0 /\ rN = 0 /\ rReply = Reply("none", <<>>, <<>>)
    /\ rOut = NoOutcome /\ sOut = NoOutcome /\ rpc = "idle"

(***************************************************************************)
(* The parser on its own: a script is chosen and parsed.                   *)
(***************************************************************************)
ParseInit ==
    /\ script \in Scripts
    /\ segs = <<>>
    /\ ppc = "start"
    /\ RefineIdle
    /\ SaveIdle
    /\ PipeIdle
    /\ TTSIdle /\ FetchIdle /\ SliceIdle

ParseScript ==
    /\ ppc = "start"
    /\ segs' = parse_script(script)
    /\ ppc' = "done"
    /\ UNCHANGED <<script, refineVars, saveVars, pipeVars>>
    /\ UNCHANGED <<ttsVars, fetchVars, sliceVars>>

ParseNext == ParseScript

SpecParse == ParseInit /\ [][ParseNext]_vars

(***************************************************************************)
(* The refiner on its own: the segment count, N and the reply of the LLM   *)
(* are chosen; one of the two public functions is called.                  *)
(***************************************************************************)
RefineInit ==
    /\ rSegs \in 0..MaxSegs
    /\ rN \in 1..MaxN
    /\ rReply \in Replies(rSegs)
    /\ rOut = NoOutcome
    /\ sOut = NoOutcome
    /\ rpc = "start"
    /\ ParseIdle
    /\ SaveIdle
    /\ PipeIdle
    /\ TTSIdle /\ FetchIdle /\ SliceIdle

BatchRefine ==
    /\ rpc = "start"
    /\ rOut' = batch_refine_scenes(rSegs, rN, rReply)
    /\ rpc' = "batch_done"
    /\ UNCHANGED <<rSegs, rN, rReply, sOut, parseVars, saveVars, pipeVars>>
    /\ UNCHANGED <<ttsVars, fetchVars, sliceVars>>

RefineScene ==
    /\ rpc = "start"
    /\ sOut' = refine_scene(rN, rReply)
    /\ rpc' = "scene_done"
    /\ UNCHANGED <<rSegs, rN, rReply, rOut, parseVars, saveVars, pipeVars>>
    /\ UNCHANGED <<ttsVars, fetchVars, sliceVars>>

RefineNext == BatchRefine \/ RefineScene

SpecRefine == RefineInit /\ [][RefineNext]_vars

(***************************************************************************)
(* _save_image on its own                                                  *)
(***************************************************************************)
\* _save_image(url, meta, tries) is called with OUT_DIR empty
SaveInit ==
    /\ svTries \in 0..MaxTries
    /\ svAttempt = 0
    /\ svFn = NoFile
    /\ svFiles = {}
    /\ svLog = <<>>
    /\ svRet = "running"
    /\ svImage = NoContent
    /\ svpc = "loop"
    /\ ParseIdle
    /\ RefineIdle
    /\ PipeIdle
    /\ TTSIdle /\ FetchIdle /\ SliceIdle

SpecSave == SaveInit /\ [][SaveNext]_vars

(***************************************************************************)
(* text_to_mp3 on its own: the content of a parsed segment is narrated     *)
(***************************************************************************)
TTSInit ==
    /\ tRaw \in TTSContents
    /\ tClean = <<>>
    /\ tChunks = <<>>
    /\ tCalls = <<>>
    /\ tParts = <<>>
    /\ tFiles = {}
    /\ tOut = <<>>
    /\ tRet = "running"
    /\ tpc = "start"
    /\ ParseIdle /\ RefineIdle /\ SaveIdle /\ PipeIdle /\ FetchIdle /\ SliceIdle

SpecTTS == TTSInit /\ [][TTSNext]_vars

(***************************************************************************)
(* fetch_images on its own                                                 *)
(***************************************************************************)
FetchInit ==
    /\ fTarget \in 1..MaxTarget
    /\ fPageNo = 0
    /\ fData = <<>>
    /\ fHit = 0
    /\ fSaved = <<>>
    /\ fDownloads = {}
    /\ fRet = "running"
    /\ fpc = "loop"
    /\ ParseIdle /\ RefineIdle /\ SaveIdle /\ PipeIdle /\ TTSIdle /\ SliceIdle

SpecFetch == FetchInit /\ [][FetchNext]_vars

(***************************************************************************)
(* create_video for one segment with audio                                 *)
(***************************************************************************)
SliceInit ==
    /\ cDur \in Durations
    /\ cImages \in ImageLists
    /\ cSlices = <<>>
    /\ cTotal = <<0, 0>>
    /\ cpc = "start"
    /\ ParseIdle /\ RefineIdle /\ SaveIdle /\ PipeIdle /\ TTSIdle /\ FetchIdle

SpecSlice == SliceInit /\ [][SliceNext]_vars

(***************************************************************************)
(* build_video from the parsed script to its return                        *)
(***************************************************************************)
Init ==
    /\ PipeInit /\ ParseIdle /\ RefineIdle /\ SaveIdle
    /\ TTSIdle /\ FetchIdle /\ SliceIdle

Next == PipeNext

Spec == Init /\ [][Next]_vars

(***************************************************************************)
(* Claims about build_video                                                *)
(***************************************************************************)
\* build_video runs to its end: a call that has been made returns or raises,
\* and the statement after it is executed
SpecFair == Init /\ [][Next]_vars /\ WF_vars(Next)

Range(f) == {f[k] : k \in DOMAIN f}

\* the segments whose scene_to_mp3 call returned a path
Voiceable == {i \in DOMAIN ttsLog : ttsLog[i].mp3}

StrictlyIncreasing(v) == \A k, l \in DOMAIN v : k < l => v[k] < v[l]

\* C1: the list voiced, which build_video hands to create_video, holds exactly
\* the segments of parse_script's list that got an audio file, each once and
\* in the order of that list, and create_video builds its clips for exactly
\* these segments in the same order.
C1_OrderPreserved ==
    /\ StrictlyIncreasing(voiced)
    /\ Range(voiced) = Voiceable
    /\ \A i \in DOMAIN segments :
          "audio_path" \in segments[i].keys <=> i \in Voiceable
    /\ (pc = "done" /\ result = "path") => clips = voiced /\ clips # <<>>

\* a video was made of a two-segment script whose first segment got no audio
C1_Witness ==
    /\ pc = "done"
    /\ result = "path"
    /\ Len(segments) = 2
    /\ ~ttsLog[1].mp3
    /\ clips = <<2>>

\* C4: in every pipeline-fatal case (no segments, no segment with audio, a
\* failing render step) build_video returns None, does not raise, and leaves
\* no file at the output location.
C4_FatalReturnsNone ==
    ( /\ pc = "done"
      /\ \/ segments = <<>>
         \/ (ttsIdx = Len(segments) /\ voiced = <<>>)
         \/ aborted = "render" )
    => (result = "None" /\ outFile = "absent")

\* a speech request of segment i failed
SynthesisFailed(i) == \E k \in DOMAIN ttsLog[i].calls : ~ttsLog[i].calls[k]

\* C5: a segment for which a speech request failed, on the single-call path
\* or on the chunk path, is dropped: it is not in voiced and gets no
\* audio_path; the failure does not end build_video, which goes on with the
\* next segment.
C5_FailedSegmentDropped ==
    /\ pc = "tts" => result = "running"
    /\ \A i \in DOMAIN ttsLog :
          SynthesisFailed(i) =>
              /\ i \notin Range(voiced)
              /\ "audio_path" \notin segments[i].keys

TOPIC == Query("topic", 0, 0)

\* C6 as stated: after a derived query whose fetch yielded no image, the next
\* fetch uses the topic string itself.
C6_TopicRetryFirst ==
    \A k \in DOMAIN fetchLog :
        (fetchLog[k].role = "derived" /\ fetchLog[k].res = "none" /\ k < Len(fetchLog))
        => fetchLog[k + 1].q = TOPIC

\* C6 as amended: a derived query whose fetch yields no image is retried once,
\* with "<topic> visual <q_idx+1>" and with nothing else, and such a retry
\* happens only then; when a segment's derived queries are through and it has
\* fewer than images_per_segment images, "<topic> photo <images held + 1>" is
\* fetched, and the first such fetch that yields nothing is the segment's last.
C6_FallbackChain ==
    \A k \in DOMAIN fetchLog :
        LET e == fetchLog[k]
        IN  /\ (e.role = "derived" /\ e.res = "none") =>
                  /\ k < Len(fetchLog)
                  /\ fetchLog[k + 1] =
                        Fetch(e.seg, "fallback", e.slot,
                              Query("visual", e.slot + 1, 0), fetchLog[k + 1].res)
            /\ e.role = "fallback" =>
                  /\ k > 1
                  /\ fetchLog[k - 1].role = "derived"
                  /\ fetchLog[k - 1].res = "none"
                  /\ fetchLog[k - 1].seg = e.seg
                  /\ fetchLog[k - 1].slot = e.slot
                  /\ e.q # TOPIC
            /\ e.role = "topup" =>
                  /\ e.q = Query("photo", e.slot + 1, 0)
                  /\ e.slot < ips
                  /\ Cardinality({j \in 1..(k - 1) :
                        fetchLog[j].seg = e.seg /\ fetchLog[j].role = "derived"}) = ips
                  /\ e.res = "none" =>
                        \A j \in (k + 1)..Len(fetchLog) : fetchLog[j].seg # e.seg

\* a derived query and its retry both yielded nothing, and a later fetch of the
\* same segment with the photo query brought an image
C6_Witness ==
    \E k \in DOMAIN fetchLog :
        /\ fetchLog[k].role = "derived" /\ fetchLog[k].res = "none"
        /\ k + 1 \in DOMAIN fetchLog /\ fetchLog[k + 1].res = "none"
        /\ \E j \in DOMAIN fetchLog :
              /\ j > k + 1
              /\ fetchLog[j].seg = fetchLog[k].seg
              /\ fetchLog[j].role = "topup"
              /\ fetchLog[j].res = "ok"

\* C7: after the image stage every voiced segment has between 0 and
\* images_per_segment images, fewer than images_per_segment only when a photo
\* fetch for it yielded nothing, and no failing fetch ends build_video or
\* keeps a later segment from being processed.
C7_ImagesBoundedNoAbort ==
    /\ aborted # "fetch"
    /\ \A p \in DOMAIN voiced :
          "images" \in segments[voiced[p]].keys =>
              LET imgs == segments[voiced[p]].images
              IN  /\ Len(imgs) <= ips
                  /\ Len(imgs) < ips =>
                        \E k \in DOMAIN fetchLog :
                            /\ fetchLog[k].seg = p - 1
                            /\ fetchLog[k].role = "topup"
                            /\ fetchLog[k].res = "none"
    /\ pc = "render" =>
          \A p \in DOMAIN voiced : "images" \in segments[voiced[p]].keys

(***************************************************************************)
(* Claims about parse_script                                               *)
(***************************************************************************)
\* the five prefixes C2 names
ClaimedExcluded == {
    <<"s","o","u","r","c","e","s">>,
    <<"r","e","f","e","r","e","n","c","e","s">>,
    <<"b","i","b","l","i","o","g","r","a","p","h","y">>,
    <<"f","u","r","t","h","e","r"," ","r","e","a","d","i","n","g">>,
    <<"c","r","e","d","i","t","s">> }

RetainedCitation == ClaimedExcluded \ {SOURCES}

HasPrefixIn(h, S) == \E p \in S : StartsWith(Lower(h), p)

\* the text under heading line k of a script: the lines up to the next heading
\* line, each ended by a line end
RECURSIVE RawUnder(_, _)
RawUnder(s, k) ==
    IF k + 1 > Len(s) \/ IsHeadLine(s[k + 1]) THEN <<>>
    ELSE s[k + 1] \o <<"\n">> \o RawUnder(s, k + 1)

BodyUnder(s, k) == Strip(RawUnder(s, k))

\* C2 as stated: parse_script returns no segment whose heading begins, in any
\* letter case, with sources, references, bibliography, further reading or
\* credits.
C2_NoCitationHeading ==
    ppc = "done" =>
        \A i \in DOMAIN segs : ~HasPrefixIn(segs[i].heading, ClaimedExcluded)

\* C2 as amended: no returned segment has a heading that begins with sources in
\* any letter case, and a heading that begins with references, bibliography,
\* further reading or credits and has a non-empty body is returned as a segment
\* whose content is that body without the heading.
C2_OnlySourcesExcluded ==
    ppc = "done" =>
        /\ \A i \in DOMAIN segs : ~IsSourcesHead(segs[i].heading)
        /\ \A k \in DOMAIN script :
              ( /\ IsHeadLine(script[k])
                /\ HasPrefixIn(Strip(HeadGroup(script[k])), RetainedCitation)
                /\ BodyUnder(script, k) # <<>> )
              => \E i \in DOMAIN segs :
                    /\ segs[i].heading = Strip(HeadGroup(script[k]))
                    /\ segs[i].content = BodyUnder(script, k)

\* a script with a Sources heading over a non-empty body and a References
\* heading over a non-empty body has been parsed
C2_Witness ==
    /\ ppc = "done"
    /\ \E k \in DOMAIN script :
          /\ IsHeadLine(script[k])
          /\ IsSourcesHead(Strip(HeadGroup(script[k])))
          /\ BodyUnder(script, k) # <<>>
    /\ \E k \in DOMAIN script :
          /\ script[k] = LnReferences
          /\ BodyUnder(script, k) # <<>>


(***************************************************************************)
(* Claims about batch_refine_scenes and refine_scene                       *)
(***************************************************************************)
\* a list of exactly N query strings
IsNQueries(qs, N) ==
    /\ DOMAIN qs = 1..N
    /\ \A j \in 1..N : qs[j].src # "nonstr"

\* C3: batch_refine_scenes and refine_scene never raise; batch_refine_scenes
\* returns an entry for every index 0..len(segments)-1, and every list
\* returned holds exactly N query strings, whatever _call_o3 returned.
C3_TotalExactlyN ==
    /\ rpc = "batch_done" =>
          /\ ~rOut.raised
          /\ DOMAIN rOut.out = 0..(rSegs - 1)
          /\ \A i \in 0..(rSegs - 1) : IsNQueries(rOut.out[i], rN)
    /\ rpc = "scene_done" =>
          /\ ~sOut.raised
          /\ IsNQueries(sOut.out, rN)

\* batch_refine_scenes has returned for two or more segments on a JSON object
\* whose value for index 0 cannot be iterated
C3_Witness ==
    /\ rpc = "batch_done"
    /\ rSegs >= 2
    /\ rReply.kind = "dict"
    /\ rReply.vals[0].kind = "null"
    /\ rReply.vals[1].kind = "list"

\* an index whose value is a JSON array of strings only
WellFormed(v) ==
    /\ v.kind = "list"
    /\ v.items # <<>>
    /\ \A k \in DOMAIN v.items : v.items[k].isStr

\* C10: when the LLM's JSON object has a problem at one index only (the key is
\* absent or its value is not an array of strings), every other index keeps
\* the queries the LLM returned for it, truncated to N.
C10_OtherIndexesKept ==
    ( /\ rpc = "batch_done"
      /\ rReply.kind = "dict"
      /\ Cardinality({i \in 0..(rSegs - 1) : ~WellFormed(rReply.vals[i])}) = 1 )
    => \A i \in 0..(rSegs - 1) :
          WellFormed(rReply.vals[i]) =>
              LET llm == Take(StrQueries(rReply.vals[i].items), rN)
              IN  SubSeq(rOut.out[i], 1, Len(llm)) = llm


(***************************************************************************)
(* Claims about _save_image                                                *)
(***************************************************************************)
\* C8: whenever _save_image has ended without returning a path, no file it
\* wrote remains in OUT_DIR, neither an image nor a sidecar metadata file.
C8_NoResidualFiles ==
    svRet = "None" => svFiles = {}

\* the requests.get calls of a log
Gets(log) == {k \in DOMAIN log : log[k] = "get"}

\* a log in which every time.sleep stands between two requests.get
SleepsOnlyBetween(log) ==
    \A k \in DOMAIN log :
        log[k] = "sleep" =>
            /\ k > 1 /\ log[k - 1] = "get"
            /\ k < Len(log) /\ log[k + 1] = "get"

\* C9: _save_image returns a path only for content that decoded as an image
\* of width >= MIN_WIDTH; a failed download is discarded (its image file is
\* gone) and retried; at most tries downloads are made; there is a pause
\* after every failed attempt but the last and nowhere else; None is
\* returned exactly when all tries attempts have failed.
C9_VerifyRetryBudget ==
    /\ Cardinality(Gets(svLog)) <= svTries
    /\ svRet = "path" =>
          /\ svImage.valid
          /\ svImage.width >= MIN_WIDTH
          /\ File(svImage.id, "jpg") \in svFiles
          /\ SleepsOnlyBetween(svLog)
          /\ Len(svLog) = 2 * Cardinality(Gets(svLog)) - 1
    /\ svRet = "None" =>
          /\ Cardinality(Gets(svLog)) = svTries
          /\ SleepsOnlyBetween(svLog)
          /\ svTries > 0 => Len(svLog) = 2 * svTries - 1
          /\ \A f \in svFiles : f.ext # "jpg"
    /\ svRet = "running" => \A f \in svFiles : f.ext # "jpg"

\* _save_image has returned a path on its third attempt, after an undersized
\* image and a failed download
C9_Witness ==
    /\ svRet = "path"
    /\ svAttempt = 2
    /\ svLog = <<"get", "sleep", "get", "sleep", "get">>

(***************************************************************************)
(* parse_script: count, order, content                                     *)
(***************************************************************************)
\* the positions of the heading lines of a script, in order of occurrence
RECURSIVE HeadLinesFrom(_, _)
HeadLinesFrom(s, k) ==
    IF k > Len(s) THEN <<>>
    ELSE (IF IsHeadLine(s[k]) THEN <<k>> ELSE <<>>) \o HeadLinesFrom(s, k + 1)

HeadLines(s) == HeadLinesFrom(s, 1)

\* the blocks of a script: block 0 is the text before the first heading line,
\* block b >= 1 is heading line number b with the text under it
BlockHeading(s, b) ==
    IF b = 0 THEN None ELSE Strip(HeadGroup(s[HeadLines(s)[b]]))

BlockBody(s, b) ==
    IF b = 0 THEN BodyUnder(s, 0) ELSE BodyUnder(s, HeadLines(s)[b])

EndsWith(s, suffix) ==
    /\ Len(s) >= Len(suffix)
    /\ SubSeq(s, Len(s) - Len(suffix) + 1, Len(s)) = suffix

\* segment seg was made from block b of script s
FromBlock(seg, s, b) ==
    /\ seg.heading = BlockHeading(s, b)
    /\ EndsWith(seg.content, BlockBody(s, b))

\* C12: for a script with K heading markers parse_script returns at most K+1
\* segments, and the segments are in the order of their source text: each
\* comes from a block of its own, the blocks strictly ascending (the leading
\* block first, then headings in order of occurrence), so none is reordered
\* or emitted twice.
C12_AtMostKPlusOneInOrder ==
    ppc = "done" =>
        LET K == Len(HeadLines(script))
        IN  /\ Len(segs) <= K + 1
            /\ \E src \in [DOMAIN segs -> 0..K] :
                  /\ \A i \in DOMAIN segs : FromBlock(segs[i], script, src[i])
                  /\ \A i, j \in DOMAIN segs : i < j => src[i] < src[j]

\* a script with a leading block and a retained heading has been parsed into
\* as many segments as it has blocks
C12_Witness ==
    /\ ppc = "done"
    /\ Len(segs) >= 2
    /\ Len(segs) = Len(HeadLines(script)) + 1
    /\ segs[1].heading = None

\* the blocks of a script whose text is non-empty after trimming
FilledBlocks(s) == { b \in 0..Len(HeadLines(s)) : BlockBody(s, b) # <<>> }

\* C13: every segment parse_script returns has content that is non-empty after
\* trimming; a heading whose body is empty or whitespace-only and a leading
\* block that is empty after trimming produce no segment, so there are no more
\* segments than blocks with text.
C13_NoEmptyContent ==
    ppc = "done" =>
        /\ \A i \in DOMAIN segs : Strip(segs[i].content) # <<>>
        /\ Len(segs) <= Cardinality(FilledBlocks(script))
        /\ BlockBody(script, 0) = <<>> =>
              \A i \in DOMAIN segs : segs[i].heading # None

\* a script with a whitespace-only leading block, a retained heading with no
\* body and a heading with a body has been parsed
C13_Witness ==
    /\ ppc = "done"
    /\ Len(script) >= 1
    /\ script[1] = LnBlank
    /\ \E b \in 1..Len(HeadLines(script)) :
          /\ BlockBody(script, b) = <<>>
          /\ ~IsSourcesHead(BlockHeading(script, b))
    /\ Len(segs) = 1

\* the content parse_script is to give block b: the body alone for the leading
\* block and under a structural heading, the heading, ". " and the body under
\* an informative one
ExpectedContent(s, b) ==
    IF b = 0 \/ HasPrefixIn(BlockHeading(s, b), STRUCTURAL_HEADINGS)
    THEN BlockBody(s, b)
    ELSE BlockHeading(s, b) \o <<".", " ">> \o BlockBody(s, b)

\* C14: every segment of a retained (heading, body) pair has the content
\* "{heading}. {body}", both trimmed, when the heading is informative and the
\* trimmed body alone when the heading is structural; a non-empty leading
\* block is the first segment, with no heading and its trimmed text as content.
C14_ContentRule ==
    ppc = "done" =>
        /\ \A i \in DOMAIN segs :
              \E b \in 0..Len(HeadLines(script)) :
                 /\ segs[i].heading = BlockHeading(script, b)
                 /\ segs[i].content = ExpectedContent(script, b)
                 /\ segs[i].type = "text"
        /\ BlockBody(script, 0) # <<>> =>
              /\ Len(segs) >= 1
              /\ segs[1] = [type |-> "text", heading |-> None,
                            content |-> BlockBody(script, 0)]

\* a script with an informative heading and a structural heading, each over
\* text, has been parsed: the first content begins with its heading, the
\* second does not
C14_Witness ==
    /\ ppc = "done"
    /\ Len(segs) = 2
    /\ \E i \in DOMAIN segs :
          /\ segs[i].heading # None
          /\ HasPrefixIn(segs[i].heading, STRUCTURAL_HEADINGS)
          /\ ~StartsWith(segs[i].content, segs[i].heading)
    /\ \E i \in DOMAIN segs :
          /\ segs[i].heading # None
          /\ ~HasPrefixIn(segs[i].heading, STRUCTURAL_HEADINGS)
          /\ StartsWith(segs[i].content, segs[i].heading \o <<".", " ">>)

\* the heading lines of a script whose heading begins with "sources"
SourcesLines(s) ==
    { k \in DOMAIN s :
        IsHeadLine(s[k]) /\ StartsWith(Lower(Strip(HeadGroup(s[k]))), SOURCES) }

\* C15: a heading that begins with "sources" in any letter case yields no
\* segment whatever its body: no segment carries such a heading, and the
\* segments are no more than the leading block and the other heading lines;
\* the exclusion wins over the heading's place in STRUCTURAL_HEADINGS.
C15_SourcesYieldNothing ==
    ppc = "done" =>
        /\ \A k \in SourcesLines(script) :
              \A i \in DOMAIN segs : segs[i].heading # Strip(HeadGroup(script[k]))
        /\ Len(segs) <= 1 + Len(HeadLines(script)) - Cardinality(SourcesLines(script))

\* a script with the heading "SOURCES: web" over a non-empty body and one
\* other segment has been parsed
C15_Witness ==
    /\ ppc = "done"
    /\ \E k \in SourcesLines(script) :
          /\ script[k] = LnSourcesLong
          /\ BodyUnder(script, k) # <<>>
    /\ Len(segs) = 1

(***************************************************************************)
(* build_video: what the stages after parse_script do to a segment         *)
(***************************************************************************)
\* C19: no step of build_video after parse_script changes the number of
\* segments or a segment's content, heading or type; a step only adds the
\* keys audio_path and images to a segment and removes none.
C19_SegmentsOnlyAnnotated ==
    [][ /\ Len(segments') = Len(segments)
        /\ \A i \in DOMAIN segments :
              /\ segments'[i].content = segments[i].content
              /\ segments'[i].heading = segments[i].heading
              /\ segments'[i].type = segments[i].type
              /\ segments[i].keys \subseteq segments'[i].keys
              /\ segments'[i].keys \ segments[i].keys \subseteq {"audio_path", "images"}
      ]_vars

\* build_video has returned a path and a segment carries both an audio_path
\* and a non-empty images list
C19_Witness ==
    /\ pc = "done"
    /\ result = "path"
    /\ \E i \in DOMAIN segments :
          /\ {"audio_path", "images"} \subseteq segments[i].keys
          /\ segments[i].images # <<>>

(***************************************************************************)
(* text_to_mp3: chunking and the text handed to the speech request         *)
(***************************************************************************)
\* C17: when every speech request succeeds, a cleaned text of more than 4096
\* characters is split into chunks each shorter than 4000 characters, one
\* request is made per chunk, in order, the artifact holds the audio of all
\* chunks in their order and no chunk file is left; a cleaned text of at most
\* 4096 characters is synthesized by a single request with the whole text.
C17_ChunkedSynthesis ==
    ( /\ tpc = "done"
      /\ \A c \in DOMAIN tCalls : tCalls[c].outcome = "ok" )
    => IF PyLen(tClean) > TTS_SINGLE_MAX
       THEN /\ \A i \in DOMAIN tChunks : ChunkLen(tChunks[i]) < CHUNK_LIMIT
            /\ Len(tCalls) = Len(tChunks)
            /\ \A i \in DOMAIN tChunks : tCalls[i].len = ChunkLen(tChunks[i])
            /\ tRet = "path"
            /\ tOut = [i \in DOMAIN tChunks |-> i]
            /\ tFiles = {}
       ELSE /\ Len(tCalls) = 1
            /\ tCalls[1].len = PyLen(tClean)
            /\ tOut = <<0>>

\* C20: for the content of every segment parse_script produced, the text
\* that _clean leaves is non-empty, and so is every text handed to a speech
\* request.
C20_NoEmptySynthInput ==
    /\ tpc \in {"single", "chunks", "done"} => tClean # <<>>
    /\ \A c \in DOMAIN tCalls : tCalls[c].len > 0

(***************************************************************************)
(* fetch_images: paging and the host filter                                *)
(***************************************************************************)
\* C16: fetch_images makes a search-page request only while fewer than target
\* images are saved and the page requested last, if any, had results; saved
\* never holds more than target paths.
C16_StopsPaging ==
    [][ /\ fPageNo' > fPageNo =>
              /\ Len(fSaved) < fTarget
              /\ fPageNo = 0 \/ fData # <<>>
        /\ Len(fSaved') <= fTarget
      ]_vars

\* a URL whose host, compared without regard to letter case, is in BLOCKLIST
IsBlocklisted(url) == \E b \in BLOCKLIST : Lower(url.host) = b

\* C18: _save_image is never called with a hit whose host is in BLOCKLIST, and
\* no saved path comes from such a host.
C18_NoBlocklistedDownload ==
    /\ \A url \in fDownloads : ~IsBlocklisted(url)
    /\ \A i \in DOMAIN fSaved : ~IsBlocklisted(fSaved[i])

\* the first page began with a hit on IMG.UEFA.COM, which was passed over, and
\* the hit after it was downloaded and saved
C18_Witness ==
    /\ fPageNo = 1
    /\ fHit = 2
    /\ fData[1].host = <<"I","M","G",".","U","E","F","A",".","C","O","M">>
    /\ fSaved = <<fData[2]>>
    /\ fDownloads = {fData[2]}

(***************************************************************************)
(* create_video: the visuals of one segment                                *)
(***************************************************************************)
\* the value of a duration in units of 2^-Scale, an integer
Scale == 3 * FloatBits

Units(x) == x[1] * Pow2(x[2] + Scale)

Abs(n) == IF n < 0 THEN -n ELSE n

\* each visual starts where the one before it ends, the first at 0
Consecutive(slices) ==
    /\ slices[1].start = <<0, 0>>
    /\ \A j \in 1..(Len(slices) - 1) :
          /\ slices[j + 1].start = slices[j].end
          /\ slices[j + 1].audio_start = slices[j].audio_end

\* a segment without usable images has one placeholder visual of duration D
PlaceholderSpansAll ==
    Len(img_paths(cImages)) = 0 =>
        /\ Len(cSlices) = 1
        /\ cSlices[1].kind = "placeholder"
        /\ cSlices[1].duration = cDur
        /\ cTotal = cDur

\* C11 as stated: a segment of duration D with k >= 1 usable images gets k
\* consecutive visuals, all but the last of duration D/k, no duration below 0,
\* that end at D and sum to exactly D; a segment without usable images gets
\* one placeholder of duration D.
C11_SlicesSumExactly ==
    cpc = "done" =>
        LET k == Len(img_paths(cImages))
        IN  /\ k >= 1 =>
                  /\ Len(cSlices) = k
                  /\ \A j \in 1..k : cSlices[j].kind = "image"
                  /\ \A j \in 1..(k - 1) : cSlices[j].duration = FDiv(cDur, k)
                  /\ \A j \in 1..k : Units(cSlices[j].duration) >= 0
                  /\ Consecutive(cSlices)
                  /\ cSlices[k].end = cDur
                  /\ cTotal = cDur
            /\ PlaceholderSpansAll

\* C11 as amended: a segment of duration D with k >= 1 usable images gets k
\* consecutive visuals, every one of them (the last too) of the duration
\* per = D/k as rounded by the division, none below 0; their sum is D exactly
\* for k = 1 and k = 2 and otherwise within k * 2^(1 - FloatBits) * D of D; a
\* segment without usable images gets one placeholder of duration D.
C11_EqualSharesUpToRounding ==
    cpc = "done" =>
        LET k == Len(img_paths(cImages))
        IN  /\ k >= 1 =>
                  /\ Len(cSlices) = k
                  /\ \A j \in 1..k :
                        /\ cSlices[j].kind = "image"
                        /\ cSlices[j].duration = FDiv(cDur, k)
                        /\ Units(cSlices[j].duration) >= 0
                  /\ Consecutive(cSlices)
                  /\ cTotal = cSlices[k].end
                  /\ k <= 2 => cTotal = cDur
                  /\ Abs(Units(cTotal) - Units(cDur)) * Pow2(FloatBits - 1)
                        <= k * Units(cDur)
            /\ PlaceholderSpansAll

\* a segment with three usable images has been given three equal visuals whose
\* sum is not the duration of its audio
C11_Witness ==
    /\ cpc = "done"
    /\ Len(img_paths(cImages)) = 3
    /\ Len(cSlices) = 3
    /\ cTotal # cDur

(***************************************************************************)
(* build_video: the queries of a voiced segment                            *)
(*                                                                         *)
(* batch_refine_scenes is called with voiced: entry idx of its prompt and  *)
(* key idx of its result belong to voiced[idx] (here voiced[idx + 1]).     *)
(***************************************************************************)
\* the fetches logged for position idx of voiced that brought an image
FetchedFor(idx) ==
    { fetchLog[k].q : k \in { j \in DOMAIN fetchLog :
                                fetchLog[j].seg = idx /\ fetchLog[j].res = "ok" } }

\* C21: in the image stage every position of voiced has a query list of its
\* own, of images_per_segment queries, under its own index; every derived
\* fetch for a position of voiced uses the query at its slot in that list, a
\* query made for a segment index carries that position's index, and the
\* images a segment gets come from fetches made for its own position in
\* voiced, also when a failed narration dropped segments before it.
C21_OwnQueries ==
    /\ pc \in {"fetch", "render"} =>
          /\ DOMAIN queries = 0..(Len(voiced) - 1)
          /\ \A i \in DOMAIN queries : Len(queries[i]) = ips
    /\ \A k \in DOMAIN fetchLog :
          LET e == fetchLog[k]
          IN  /\ e.seg \in DOMAIN queries
              /\ e.role = "derived" =>
                    /\ e.q = queries[e.seg][e.slot + 1]
                    /\ e.q.src \in {"segment_fallback", "segment_extra"} =>
                          e.q.a = e.seg
    /\ \A i \in DOMAIN segments :
          "images" \in segments[i].keys =>
              \E p \in 1..fIdx :
                 /\ voiced[p] = i
                 /\ \A n \in DOMAIN segments[i].images :
                       segments[i].images[n] \in FetchedFor(p - 1)

\* the first of two segments got no audio; the second, at index 0 of voiced,
\* was fetched with the first query of the list under key 0 and got its image
C21_Witness ==
    /\ Len(segments) = 2
    /\ voiced = <<2>>
    /\ "images" \in segments[2].keys
    /\ Len(fetchLog) >= 1
    /\ fetchLog[1] = Fetch(0, "derived", 0, queries[0][1], "ok")
    /\ segments[2].images[1] = queries[0][1]

(***************************************************************************)
(* build_video: the fetches of one voiced segment                          *)
(***************************************************************************)
\* the places in fetchLog of the calls made for position idx of voiced
CallsFor(idx) == { k \in DOMAIN fetchLog : fetchLog[k].seg = idx }

\* those of one part of the loop body
CallsOf(idx, role) == { k \in CallsFor(idx) : fetchLog[k].role = role }

\* at most images_per_segment derived fetches, a fallback fetch only for a
\* derived query whose fetch brought nothing and one at most for each, at most
\* images_per_segment top-up fetches of which only the last can have failed:
\* 3 * images_per_segment calls at most for the segment
WithinBudget(idx) ==
    /\ Cardinality(CallsFor(idx)) <= 3 * ips
    /\ Cardinality(CallsOf(idx, "derived")) <= ips
    /\ Cardinality(CallsOf(idx, "topup")) <= ips
    /\ \A k \in CallsOf(idx, "derived"), j \in CallsOf(idx, "derived") :
          fetchLog[k].slot = fetchLog[j].slot => k = j
    /\ \A k \in CallsOf(idx, "fallback") :
          /\ k - 1 \in CallsOf(idx, "derived")
          /\ fetchLog[k - 1].slot = fetchLog[k].slot
          /\ fetchLog[k - 1].res = "none"
    /\ \A k \in CallsOf(idx, "topup") :
          fetchLog[k].res # "ok" => \A j \in CallsFor(idx) : j <= k

\* the image stage is at position idx of voiced
FetchingFor(idx) == pc = "fetch" /\ fIdx = idx

\* C22: for every position of voiced the calls of fetch_images stay within
\* 3 * images_per_segment (two at most for each derived query, the top-up
\* loop ending at its first failed fetch), and once the image stage has
\* reached a position it leaves it: it goes on to the next segment, to the
\* rendering step, or build_video ends.
C22_FetchesBoundedAndDone ==
    /\ [](\A idx \in 0..(MaxSegs - 1) : WithinBudget(idx))
    /\ \A idx \in 0..(MaxSegs - 1) : FetchingFor(idx) ~> ~FetchingFor(idx)

\* a segment that took all 3 * images_per_segment calls: every derived query
\* and its fallback brought nothing, every top-up fetch brought an image
C22_Witness ==
    /\ ips = IMAGES_PER_SEGMENT
    /\ pc \in {"fetch", "render"}
    /\ fIdx >= 1
    /\ Cardinality(CallsFor(0)) = 3 * ips
    /\ Cardinality(CallsOf(0, "fallback")) = ips
    /\ Len(segments[voiced[1]].images) = ips

====
